---- MODULE Spec2Model ----
(***************************************************************************)
(* A model of the skribblin blog: the typography module, the Layout, Bio,  *)
(* PostLink and BlogIndex components, and the page query that feeds the    *)
(* post index.  A state holds the build environment, the objects shared    *)
(* between modules, and the mounted component: its latest render and, once *)
(* it has rendered again with the same props, the render before that.      *)
(* The hooks the posts under content/blog publish (useEffectOnPropChange   *)
(* and the dynamic portal's VideoAnswer) are modelled as components        *)
(* of their own, with a specification of their own, HookSpec.              *)
(***************************************************************************)
EXTENDS Integers, Sequences, FiniteSets, TLC

VARIABLES
  pathPrefix,      \* the build-time global __PATH_PREFIX__
  nodeEnv,         \* process.env.NODE_ENV
  siteMetadata,    \* site { siteMetadata { title author social { twitter } } }
  now,             \* the clock new Date() reads, in months since year 0
  Lawton,          \* the theme object exported by typography-theme-lawton
  typography,      \* the default export of utils/typography (Unloaded before import)
  documentStyles,  \* the style elements of the document
  rendered,        \* the mounted component's latest render (NoRender: none)
  previous,        \* its render before that one, with the same props
  watcher,         \* the Watcher components of the useEffectOnPropChange post
  videoAnswer      \* the VideoAnswer component of the dynamic-portal post

vars == <<pathPrefix, nodeEnv, siteMetadata, now, Lawton, typography,
          documentStyles, rendered, previous, watcher, videoAnswer>>

\* the blog's own state, and the state of the components the posts describe
site == <<pathPrefix, nodeEnv, siteMetadata, now, Lawton, typography,
          documentStyles, rendered, previous>>

hooks == <<watcher, videoAnswer>>

shared == <<Lawton, documentStyles, siteMetadata>>

----------------------------------------------------------------------------
(* Bounds of the model.                                                    *)

MaxTicks == 2
MaxEdges == 2
MaxPosts == 2
StartMonth == 24238

----------------------------------------------------------------------------
(* JavaScript values.  A value is a record tagged with its type, so that   *)
(* a missing field (undefined), null and the empty string stay distinct    *)
(* from each other and from every non-empty string.                        *)

Undefined == [t |-> "undefined"]
Null == [t |-> "null"]
Str(s) == [t |-> "string", v |-> s]

\* ToBoolean: undefined, null, false and "" are falsy; true, every other
\* string, and every object, array and DOM node are truthy
Truthy(x) ==
  \/ x.t = "string" /\ x.v # ""
  \/ x.t = "boolean" /\ x.b
  \/ x.t \in {"object", "array", "node"}

\* a || b
Or(a, b) == IF Truthy(a) THEN a ELSE b

\* A React element; a component element also carries what it rendered to.
El(type, props, children) ==
  [type |-> type, props |-> props, children |-> children]

----------------------------------------------------------------------------
(* The clock.                                                              *)

\* A faulty reading of the clock: getMonth() where getFullYear() is meant.
GetFullYearAsMonth == now % 12

\* new Date().getFullYear()
GetFullYear == now \div 12

Tick ==
  /\ now < StartMonth + MaxTicks
  /\ now' = now + 1
  /\ UNCHANGED <<pathPrefix, nodeEnv, siteMetadata, Lawton, typography,
                 documentStyles, rendered, previous>>
  /\ UNCHANGED hooks

----------------------------------------------------------------------------
(* utils/typography.js                                                     *)

Unloaded == [loaded |-> FALSE]

\* Lawton.baseLineHeight = 1.62, in hundredths
BaseLineHeight == 162

\* the object the function assigned to Lawton.overrideThemeStyles returns
OverrideThemeStyles ==
  [a_gatsby_resp_image_link |-> [boxShadow |-> "none"],
   a |-> [color |-> "#1ca086"],
   h1 |-> [marginBottom |-> "1.7rem"],
   h3 |-> [marginTop |-> "1.33rem"],
   h4 |-> [marginBottom |-> "0.85rem"],
   code |-> [fontSize |-> "0.95rem"],
   pre_code |-> [fontSize |-> "0.85rem"]]

\* new Typography(theme): the instance keeps the options it was built from
NewTypography(theme) == [loaded |-> TRUE, options |-> theme]

\* typography.injectStyles(): the instance's css goes into the document
InjectStyles(typo, styles) ==
  styles \cup {[id |-> "typography.js", css |-> typo.options]}

\* A faulty module body: line 29, "delete Lawton.googleFonts", not commented
\* out.
LoadTypographyDeletingFonts ==
  /\ typography = Unloaded
  /\ Lawton' = [Lawton EXCEPT !.baseLineHeight = BaseLineHeight,
                              !.overrideThemeStyles = OverrideThemeStyles,
                              !.googleFonts = Undefined]
  /\ typography' = NewTypography(Lawton')
  /\ documentStyles' = IF nodeEnv # "production"
                       THEN InjectStyles(typography', documentStyles)
                       ELSE documentStyles
  /\ UNCHANGED <<pathPrefix, nodeEnv, siteMetadata, now, rendered, previous>>
  /\ UNCHANGED hooks

\* A faulty module body: the styles are injected in every environment.
LoadTypographyInjectingAlways ==
  /\ typography = Unloaded
  /\ Lawton' = [Lawton EXCEPT !.baseLineHeight = BaseLineHeight,
                              !.overrideThemeStyles = OverrideThemeStyles]
  /\ typography' = NewTypography(Lawton')
  /\ documentStyles' = InjectStyles(typography', documentStyles)
  /\ UNCHANGED <<pathPrefix, nodeEnv, siteMetadata, now, rendered, previous>>
  /\ UNCHANGED hooks

\* The module body, run once when the module is first imported.
LoadTypography ==
  /\ typography = Unloaded
  /\ Lawton' = [Lawton EXCEPT !.baseLineHeight = BaseLineHeight,
                              !.overrideThemeStyles = OverrideThemeStyles]
  /\ typography' = NewTypography(Lawton')
  /\ documentStyles' = IF nodeEnv # "production"
                       THEN InjectStyles(typography', documentStyles)
                       ELSE documentStyles
  /\ UNCHANGED <<pathPrefix, nodeEnv, siteMetadata, now, rendered, previous>>
  /\ UNCHANGED hooks

\* typography.rhythm(lines), lines in quarters: a length in units of the
\* instance's base line height
rhythm(quarters) ==
  [rhythm |-> quarters, baseLineHeight |-> typography.options.baseLineHeight]

\* typography.scale(value), value in quarters: a font size and line height
scale(quarters) ==
  [fontSize |-> [scale |-> quarters],
   lineHeight |-> [scale |-> quarters,
                   baseLineHeight |-> typography.options.baseLineHeight]]

----------------------------------------------------------------------------
(* components/layout.js                                                    *)

NoProps == [style |-> Undefined]

Num(n) == [t |-> "number", v |-> n]

\* A faulty rootPath: the path prefix alone, its trailing slash forgotten.
rootPathWithoutSlash == pathPrefix

\* const rootPath = `${__PATH_PREFIX__}/`
rootPath == pathPrefix \o "/"

Title(title) ==
  El("Link",
     [style |-> [boxShadow |-> "none", textDecoration |-> "none",
                 color |-> "inherit"],
      to |-> "/"],
     <<title>>)

\* A faulty header: the path prefix without its trailing slash also counts
\* as the home page.
LayoutHeaderEitherSlash(props) ==
  IF props.location.pathname \in {rootPath, pathPrefix}
  THEN El("h1",
          [style |-> [fontSize |-> scale(6).fontSize,
                      lineHeight |-> scale(6).lineHeight,
                      marginBottom |-> rhythm(6),
                      marginTop |-> 0]],
          <<Title(props.title)>>)
  ELSE El("h3",
          [style |-> [fontFamily |-> "Montserrat, sans-serif",
                      marginTop |-> 0]],
          <<Title(props.title)>>)

\* the header prop that Layout's addProps step derives from location and title
LayoutHeader(props) ==
  IF props.location.pathname = rootPath
  THEN El("h1",
          [style |-> [fontSize |-> scale(6).fontSize,
                      lineHeight |-> scale(6).lineHeight,
                      marginBottom |-> rhythm(6),
                      marginTop |-> 0]],
          <<Title(props.title)>>)
  ELSE El("h3",
          [style |-> [fontFamily |-> "Montserrat, sans-serif",
                      marginTop |-> 0]],
          <<Title(props.title)>>)

LayoutFooter ==
  El("footer", NoProps,
     <<Str("(c) "), Num(GetFullYear), Str(", Built with"), Str(" "),
       El("a", [href |-> "https://www.gatsbyjs.org"], <<Str("Gatsby")>>)>>)

\* A faulty Layout: the footer is rendered on the home page only.
LayoutFooterOnHomeOnly(props) ==
  El("div",
     [style |-> [marginLeft |-> "auto", marginRight |-> "auto",
                 maxWidth |-> rhythm(96),
                 padding |-> <<rhythm(6), rhythm(3)>>]],
     <<El("header", NoProps, <<LayoutHeader(props)>>),
       El("main", NoProps, props.children)>>
       \o (IF props.location.pathname = rootPath
           THEN <<LayoutFooter>>
           ELSE <<>>))

Layout(props) ==
  El("div",
     [style |-> [marginLeft |-> "auto", marginRight |-> "auto",
                 maxWidth |-> rhythm(96),
                 padding |-> <<rhythm(6), rhythm(3)>>]],
     <<El("header", NoProps, <<LayoutHeader(props)>>),
       El("main", NoProps, props.children),
       LayoutFooter>>)

----------------------------------------------------------------------------
(* components/bio.js                                                       *)

\* what bioQuery selects from the site metadata
bioQuery ==
  [site |-> [siteMetadata |->
     [author |-> siteMetadata.author,
      social |-> [twitter |-> siteMetadata.social.twitter]]]]

\* A faulty render prop: the blurb ends with a link to the author's Twitter
\* page, as in the starter the blog was made from.
BioRenderWithTwitterLink(data) ==
  El("div",
     [style |-> [display |-> "flex", marginBottom |-> rhythm(10)]],
     <<El("p", NoProps,
          <<Str("Written by "),
            El("strong", NoProps, <<data.site.siteMetadata.author>>),
            Str(" who lives and works in NYC."),
            El("a",
               [href |-> "https://twitter.com/"
                           \o data.site.siteMetadata.social.twitter.v],
               <<Str("You should follow him on Twitter")>>)>>)>>)

\* the render prop of Bio's StaticQuery, applied to the query's data
BioRender(data) ==
  El("div",
     [style |-> [display |-> "flex", marginBottom |-> rhythm(10)]],
     <<El("p", NoProps,
          <<Str("Written by "),
            El("strong", NoProps, <<data.site.siteMetadata.author>>),
            Str(" who lives and works in NYC.")>>)>>)

Bio ==
  [type |-> "StaticQuery", props |-> [query |-> "BioQuery"],
   rendered |-> BioRender(bioQuery)]

----------------------------------------------------------------------------
(* pages/index.js                                                          *)

\* A faulty PostLink: the summary is always the excerpt.
PostLinkExcerptOnly(props) ==
  LET post == props.post
      title == Or(post.frontmatter.title, post.fields.slug)
  IN El("div", NoProps,
        <<El("h3", [style |-> [marginBottom |-> rhythm(1)]],
             <<El("Link",
                  [style |-> [boxShadow |-> "none"], to |-> post.fields.slug],
                  <<title>>)>>),
          El("small", NoProps, <<post.frontmatter.date>>),
          El("p", [dangerouslySetInnerHTML |-> [html |-> post.excerpt]],
             <<>>)>>)

\* A faulty PostLink: the slug stands in for a title that is null or
\* undefined only (title ?? slug), so an empty title is the link text.
PostLinkTitleUnlessNullish(props) ==
  LET post == props.post
      title == IF post.frontmatter.title \in {Null, Undefined}
               THEN post.fields.slug
               ELSE post.frontmatter.title
  IN El("div", NoProps,
        <<El("h3", [style |-> [marginBottom |-> rhythm(1)]],
             <<El("Link",
                  [style |-> [boxShadow |-> "none"], to |-> post.fields.slug],
                  <<title>>)>>),
          El("small", NoProps, <<post.frontmatter.date>>),
          El("p",
             [dangerouslySetInnerHTML |->
                [html |-> Or(post.frontmatter.description, post.excerpt)]],
             <<>>)>>)

\* A faulty PostLink: the summary is the description, with no fallback.
PostLinkDescriptionOnly(props) ==
  LET post == props.post
      title == Or(post.frontmatter.title, post.fields.slug)
  IN El("div", NoProps,
        <<El("h3", [style |-> [marginBottom |-> rhythm(1)]],
             <<El("Link",
                  [style |-> [boxShadow |-> "none"], to |-> post.fields.slug],
                  <<title>>)>>),
          El("small", NoProps, <<post.frontmatter.date>>),
          El("p",
             [dangerouslySetInnerHTML |->
                [html |-> post.frontmatter.description]],
             <<>>)>>)

\* A faulty PostLink: the title is used as it is, with no fallback.
PostLinkWithoutTitleFallback(props) ==
  LET post == props.post
      title == post.frontmatter.title
  IN El("div", NoProps,
        <<El("h3", [style |-> [marginBottom |-> rhythm(1)]],
             <<El("Link",
                  [style |-> [boxShadow |-> "none"], to |-> post.fields.slug],
                  <<title>>)>>),
          El("small", NoProps, <<post.frontmatter.date>>),
          El("p",
             [dangerouslySetInnerHTML |->
                [html |-> Or(post.frontmatter.description, post.excerpt)]],
             <<>>)>>)

PostLink(props) ==
  LET post == props.post
      title == Or(post.frontmatter.title, post.fields.slug)
  IN El("div", NoProps,
        <<El("h3", [style |-> [marginBottom |-> rhythm(1)]],
             <<El("Link",
                  [style |-> [boxShadow |-> "none"], to |-> post.fields.slug],
                  <<title>>)>>),
          El("small", NoProps, <<post.frontmatter.date>>),
          El("p",
             [dangerouslySetInnerHTML |->
                [html |-> Or(post.frontmatter.description, post.excerpt)]],
             <<>>)>>)

\* <PostLink post={node} key={slug} />
PostLinkElement(node, key) ==
  [type |-> "PostLink", key |-> key, props |-> [post |-> node],
   rendered |-> PostLink([post |-> node])]

\* <SEO title="All posts" keywords={[...]} />
SEO ==
  [type |-> "SEO",
   props |-> [title |-> "All posts",
              keywords |-> <<"blog", "gatsby", "javascript", "react">>]]

\* A faulty post list: the entries are keyed by title.
PostListKeyedByTitle(posts) ==
  [i \in 1..Len(posts) |->
     PostLinkElement(posts[i].node, posts[i].node.frontmatter.title)]

\* the edges without those whose slug an earlier edge already has
RECURSIVE WithoutRepeatedSlugs(_)
WithoutRepeatedSlugs(posts) ==
  IF posts = <<>>
  THEN <<>>
  ELSE LET n == Len(posts)
           front == SubSeq(posts, 1, n - 1)
       IN IF \E i \in 1..(n - 1) :
               posts[i].node.fields.slug = posts[n].node.fields.slug
          THEN WithoutRepeatedSlugs(front)
          ELSE Append(WithoutRepeatedSlugs(front), posts[n])

\* A faulty post list: one entry per slug, later edges with a slug already
\* listed are dropped.
PostListDeduplicated(posts) ==
  LET kept == WithoutRepeatedSlugs(posts)
  IN [i \in 1..Len(kept) |->
        PostLinkElement(kept[i].node, kept[i].node.fields.slug)]

\* posts.map(({node, node: {fields: {slug}}}) => <PostLink .../>)
PostList(posts) ==
  [i \in 1..Len(posts) |->
     PostLinkElement(posts[i].node, posts[i].node.fields.slug)]

BlogIndex(props) ==
  LET siteTitle == props.data.site.siteMetadata.title
      posts == props.data.allMarkdownRemark.edges
      children == <<SEO, Bio, PostList(posts)>>
  IN [type |-> "Layout",
      props |-> [location |-> props.location, title |-> siteTitle,
                 children |-> children],
      rendered |-> Layout([location |-> props.location, title |-> siteTitle,
                           children |-> children])]

----------------------------------------------------------------------------
(* content/blog: the markdown files, each with the front matter it         *)
(* declares.  A date "2019-09-27T09:00:00.000Z" is the tuple of its year,  *)
(* month, day, hour, minute, second and millisecond (all UTC).             *)

MarkdownFile(dir, frontmatter) == [dir |-> dir, frontmatter |-> frontmatter]

AdHokIntroAtAGlance ==
  MarkdownFile("ad-hok-intro-at-a-glance",
    [title |-> Str("From vanilla React hooks to ad-hok: At a glance"),
     date |-> <<2019, 9, 27, 9, 0, 0, 0>>])

DynamicPortal ==
  MarkdownFile("dynamic-portal",
    [title |-> Str("Using dynamic portals in React to play nice with autoplay policy"),
     date |-> <<2019, 6, 9, 20, 2, 38, 0>>])

JiggleWebpack ==
  MarkdownFile("jiggle-webpack",
    [title |-> Str("Tip: Jiggle Webpack when it can't resolve a new import"),
     date |-> <<2019, 5, 12, 13, 8, 38, 0>>])

SlackPersonalActivityChannel ==
  MarkdownFile("slack-personal-activity-channel",
    [title |-> Str("Slack tip: personal activity channel"),
     date |-> <<2019, 5, 12, 13, 15, 38, 0>>])

\* A faulty front matter: the post carries the date of dynamic-portal.
UseEffectOnPropChangeSameDate ==
  MarkdownFile("useeffectonpropchange",
    [title |-> Str("Handy React hooks helper: useEffectOnPropChange()"),
     date |-> <<2019, 6, 9, 20, 2, 38, 0>>])

UseEffectOnPropChange ==
  MarkdownFile("useeffectonpropchange",
    [title |-> Str("Handy React hooks helper: useEffectOnPropChange()"),
     date |-> <<2019, 6, 9, 18, 2, 38, 0>>])

UtilPropTypes ==
  MarkdownFile("util-proptypes",
    [title |-> Str("React best practice: util/propTypes module"),
     date |-> <<2019, 5, 12, 13, 2, 38, 0>>])

\* the six posts of the repository
ContentBlog ==
  {AdHokIntroAtAGlance, DynamicPortal, JiggleWebpack,
   SlackPersonalActivityChannel, UseEffectOnPropChange, UtilPropTypes}

\* Posts an author might add: one that declares a description and shares
\* its date with a shipped post, and one that declares no title.
DraftPosts ==
  {MarkdownFile("described",
     [title |-> Str("A described post"),
      date |-> <<2019, 6, 9, 18, 2, 38, 0>>,
      description |-> Str("What the post is about")]),
   MarkdownFile("untitled", [date |-> <<2019, 10, 1, 0, 0, 0, 0>>])}

MarkdownFiles == ContentBlog \cup DraftPosts

----------------------------------------------------------------------------
(* The data layer, as far as pageQuery specifies it.                       *)

\* lexicographic order on date tuples: a is earlier than b
RECURSIVE Earlier(_, _)
Earlier(a, b) ==
  /\ a # <<>>
  /\ \/ Head(a) < Head(b)
     \/ Head(a) = Head(b) /\ Earlier(Tail(a), Tail(b))

MonthNames ==
  <<"January", "February", "March", "April", "May", "June", "July",
    "August", "September", "October", "November", "December">>

\* date(formatString: "MMMM DD, YYYY")
FormatDate(date) ==
  MonthNames[date[2]] \o " "
    \o (IF date[3] < 10 THEN "0" ELSE "") \o ToString(date[3])
    \o ", " \o ToString(date[1])

\* a front-matter field the file does not declare is null in the result
FrontmatterField(file, field) ==
  IF field \in DOMAIN file.frontmatter THEN file.frontmatter[field] ELSE Null

\* node { excerpt fields { slug } frontmatter { date(...) title description } }
QueryNode(file) ==
  [excerpt |-> Str("Excerpt of " \o file.dir),
   fields |-> [slug |-> Str("/" \o file.dir \o "/")],
   frontmatter |->
     [date |-> IF "date" \in DOMAIN file.frontmatter
               THEN Str(FormatDate(file.frontmatter.date))
               ELSE Null,
      title |-> FrontmatterField(file, "title"),
      description |-> FrontmatterField(file, "description")]]

\* A faulty sort: order ASC, no file comes before one with an earlier date.
RECURSIVE SortByDateAsc(_)
SortByDateAsc(files) ==
  IF files = {}
  THEN {<<>>}
  ELSE UNION {{<<f>> \o rest : rest \in SortByDateAsc(files \ {f})} :
              f \in {g \in files :
                       \A h \in files :
                         ~Earlier(h.frontmatter.date, g.frontmatter.date)}}

\* sort: {fields: [frontmatter___date], order: DESC}: every ordering of the
\* files in which no file comes before one with a later date
RECURSIVE SortByDateDesc(_)
SortByDateDesc(files) ==
  IF files = {}
  THEN {<<>>}
  ELSE UNION {{<<f>> \o rest : rest \in SortByDateDesc(files \ {f})} :
              f \in {g \in files :
                       \A h \in files :
                         ~Earlier(g.frontmatter.date, h.frontmatter.date)}}

\* the results the page query may deliver for a content collection
pageQuery(collection) ==
  {[site |-> [siteMetadata |-> [title |-> siteMetadata.title]],
    allMarkdownRemark |->
      [edges |-> [i \in 1..Len(sorted) |-> [node |-> QueryNode(sorted[i])]]]] :
   sorted \in SortByDateDesc(collection)}

----------------------------------------------------------------------------
(* The inputs the model draws from.                                        *)

PathPrefixes == {"", "/blog"}

NodeEnvs == {"development", "production"}

\* location.pathname: the two roots, the prefix without its trailing slash,
\* and a post's page
Pathnames == {"/", "/blog", "/blog/", "/blog/dynamic-portal/"}

SiteMetadata(title, author, twitter) ==
  [title |-> Str(title), author |-> Str(author),
   social |-> [twitter |-> Str(twitter)]]

SiteMetadatas ==
  {SiteMetadata("skribblin", "An Author", "first"),
   SiteMetadata("notes", "A. N. Other", "second")}

\* the base line height the theme package ships with
ThemeLineHeights == {150, 162}

\* A node as a caller other than the data layer might pass it: an empty
\* title, no description and no date at all, and the slug of a shipped post.
IncompleteNode ==
  [excerpt |-> Str("Excerpt of incomplete"),
   fields |-> [slug |-> Str("/ad-hok-intro-at-a-glance/")],
   frontmatter |-> [date |-> Undefined, title |-> Str(""),
                    description |-> Undefined]]

EdgeNodes ==
  {QueryNode(AdHokIntroAtAGlance), IncompleteNode}
    \cup {QueryNode(file) : file \in DraftPosts}

EdgeLists ==
  UNION {[1..n -> {[node |-> node] : node \in EdgeNodes}] : n \in 0..MaxEdges}

\* the content collections the index page is built from: the repository's
\* six posts, and every small collection of drafts and of three of the six
Collections ==
  {c \in SUBSET (DraftPosts \cup {AdHokIntroAtAGlance, DynamicPortal,
                                   UseEffectOnPropChange}) :
     Cardinality(c) <= MaxPosts}
    \cup {ContentBlog}

\* where the index page is served: the root under either path prefix
IndexPathnames == {"/", "/blog/"}

LayoutChildren == {<<>>, <<El("p", NoProps, <<Str("page content")>>)>>}

LayoutTitles == {Str("skribblin"), Str("notes")}

----------------------------------------------------------------------------
(* Renders.                                                                *)

NoRender == [component |-> "none"]

\* the markup a component returns for its props, in the current state
Evaluate(component, props) ==
  CASE component = "Layout" -> Layout(props)
    [] component = "Bio" -> Bio
    [] component = "PostLink" -> PostLink(props)
    [] component = "BlogIndex" -> BlogIndex(props)

\* The first render of a component: what it was given, where its data came
\* from, when it ran and the markup it returned.
Mount(component, props, via) ==
  /\ typography # Unloaded
  /\ rendered = NoRender
  /\ rendered' = [component |-> component, props |-> props, via |-> via,
                  at |-> now, markup |-> Evaluate(component, props)]
  /\ previous' = NoRender
  /\ UNCHANGED <<pathPrefix, nodeEnv, siteMetadata, now, Lawton, typography,
                 documentStyles>>
  /\ UNCHANGED hooks

\* Layout given any location, title and children
RenderLayout ==
  /\ rendered = NoRender
  /\ \E pathname \in Pathnames, title \in LayoutTitles,
        children \in LayoutChildren :
       Mount("Layout",
             [location |-> [pathname |-> pathname], title |-> title,
              children |-> children],
             "props")

\* Bio takes no props: its data is the result of bioQuery
RenderBio ==
  /\ rendered = NoRender
  /\ Mount("Bio", bioQuery, "bioQuery")

\* PostLink given any node
RenderPostLink ==
  /\ rendered = NoRender
  /\ \E node \in EdgeNodes : Mount("PostLink", [post |-> node], "props")

\* BlogIndex given any list of edges and a location
RenderBlogIndex ==
  /\ rendered = NoRender
  /\ \E edges \in EdgeLists, pathname \in IndexPathnames :
       Mount("BlogIndex",
             [data |->
                [site |-> [siteMetadata |-> [title |-> siteMetadata.title]],
                 allMarkdownRemark |-> [edges |-> edges]],
              location |-> [pathname |-> pathname]],
             "props")

\* the index page as the site builds it: the page query runs over the
\* content collection and its result is BlogIndex's data prop
BuildIndexPage ==
  /\ rendered = NoRender
  /\ \E collection \in Collections, pathname \in IndexPathnames :
       \E data \in pageQuery(collection) :
         Mount("BlogIndex",
               [data |-> data, location |-> [pathname |-> pathname]],
               "pageQuery")

\* the mounted component renders again with the props it has
Rerender ==
  /\ rendered # NoRender
  /\ rendered' =
       [rendered EXCEPT !.at = now,
                        !.markup = Evaluate(rendered.component, rendered.props)]
  /\ previous' = [component |-> rendered.component, at |-> rendered.at,
                  markup |-> rendered.markup]
  /\ UNCHANGED <<pathPrefix, nodeEnv, siteMetadata, now, Lawton, typography,
                 documentStyles>>
  /\ UNCHANGED hooks

Unmount ==
  /\ rendered # NoRender
  /\ rendered' = NoRender
  /\ previous' = NoRender
  /\ UNCHANGED <<pathPrefix, nodeEnv, siteMetadata, now, Lawton, typography,
                 documentStyles>>
  /\ UNCHANGED hooks

----------------------------------------------------------------------------
(* Components with hooks: a component that is not mounted has no state.    *)

NotMounted == [mounted |-> FALSE]

----------------------------------------------------------------------------
(* More JavaScript values: booleans, arrays, and objects with their        *)
(* properties.                                                             *)

Bool(b) == [t |-> "boolean", b |-> b]

Arr(items) == [t |-> "array", items |-> items]

Obj(fields) == [t |-> "object", fields |-> fields]

\* {}
EmptyObject == Obj(<<>>)

\* the property key a value stands for: a string is its own key, an array
\* is the keys of its items joined with ","
RECURSIVE ToPropertyKey(_)
ToPropertyKey(value) ==
  IF value.t = "string"
  THEN value.v
  ELSE IF value.items = <<>>
       THEN ""
       ELSE IF Len(value.items) = 1
            THEN ToPropertyKey(value.items[1])
            ELSE ToPropertyKey(value.items[1]) \o ","
                   \o ToPropertyKey(Arr(Tail(value.items)))

\* object[key]: a property the object lacks reads as undefined
Get(object, key) ==
  IF ToPropertyKey(key) \in DOMAIN object.fields
  THEN object.fields[ToPropertyKey(key)]
  ELSE Undefined

----------------------------------------------------------------------------
(* content/blog/useeffectonpropchange: the hooks of the post.  A hook is   *)
(* modelled by what one render of the component that calls it does: the    *)
(* values it returns during the render and what its effects have done once *)
(* the render is committed.                                                *)

isArray(value) == value.t = "array"

\* A faulty ensureArray: every argument is wrapped, an array included.
ensureArrayAlwaysWrapping(maybeArray) == Arr(<<maybeArray>>)

ensureArray(maybeArray) ==
  IF isArray(maybeArray) THEN maybeArray ELSE Arr(<<maybeArray>>)

\* const ref = useRef()
useRef == [current |-> Undefined]

\* A faulty usePrevious: the effect that stores the value is missing.
usePreviousStoringNothing(ref, value) ==
  [returns |-> ref.current, ref |-> ref]

\* usePrevious(value): it returns what the ref holds during the render, and
\* its effect stores the value in the ref
usePrevious(ref, value) ==
  [returns |-> ref.current, ref |-> [current |-> value]]

\* find(ensureArray(changeProps),
\*      changeProp => prevProps[changeProp] !== props[changeProp]):
\* the first item that satisfies the predicate, undefined when none does
changed(changeProps, props, prevProps) ==
  LET array == ensureArray(changeProps).items
      found == {i \in DOMAIN array :
                  Get(prevProps, array[i]) # Get(props, array[i])}
  IN IF found = {}
     THEN Undefined
     ELSE array[CHOOSE i \in found : \A j \in found : i <= j]

\* what became of the callback after a render: not invoked, or invoked with
\* these arguments
NoCall == [called |-> FALSE]

callback(props, prevProps) ==
  [called |-> TRUE, props |-> props, prevProps |-> prevProps]

\* useEffectOnPropChange(changeProps, callback)(props), as first given
useEffectOnPropChange(changeProps, ref, props) ==
  LET previousProps == usePrevious(ref, props)
      prevProps == Or(previousProps.returns, EmptyObject)
  IN [ref |-> previousProps.ref,
      call |-> IF ~Truthy(changed(changeProps, props, prevProps))
               THEN NoCall
               ELSE callback(props, prevProps)]

\* A faulty default condition: () => false.
ConditionNeverMet == [returns |-> FALSE]

\* the default condition, () => true
DefaultCondition == [returns |-> TRUE]

\* useEffectOnPropChangeWhen(condition)(changeProps, callback)(props); a
\* condition that is not passed takes the default
useEffectOnPropChangeWhen(condition, changeProps, ref, props) ==
  LET given == IF condition = Undefined THEN DefaultCondition ELSE condition
      previousProps == usePrevious(ref, props)
      prevProps == Or(previousProps.returns, EmptyObject)
  IN [ref |-> previousProps.ref,
      call |-> IF ~Truthy(changed(changeProps, props, prevProps))
               THEN NoCall
               ELSE IF ~given.returns
                    THEN NoCall
                    ELSE callback(props, prevProps)]

\* useEffectOnPropChange reimplemented: useEffectOnPropChangeWhen()
useEffectOnPropChangeReimplemented(changeProps, ref, props) ==
  useEffectOnPropChangeWhen(Undefined, changeProps, ref, props)

----------------------------------------------------------------------------
(* Watcher: a component whose render calls the hook on its props.  Three   *)
(* Watchers are rendered side by side with the same props: one calls the   *)
(* hook as first given, one the reimplemented hook, and one the hook as    *)
(* first given with the watched props written as an array.                 *)

MaxRenders == 3

WatcherHooks == {"standalone", "reimplemented", "array"}

\* the watched props in the array calling style
ArrayStyle(changeProps) ==
  IF changeProps.t = "array" THEN changeProps ELSE Arr(<<changeProps>>)

PropNames == {"foo", "bar"}

PropValues == {Undefined, Str("bar"), Str("baz")}

\* the props a parent may pass: any of the values under any of the names
WatcherProps ==
  {Obj(fields) :
     fields \in UNION {[names -> PropValues] : names \in SUBSET PropNames}}

\* the first argument of the hook: one prop name, or an array of prop names
ChangeProps ==
  {Str("foo"), Str("bar"), Arr(<<Str("foo")>>),
   Arr(<<Str("foo"), Str("bar")>>), Arr(<<>>)}

\* one render of the three Watchers: each hook's ref afterwards and what
\* became of its callback
RenderWatchers(changeProps, refs, props) ==
  [hook \in WatcherHooks |->
     CASE hook = "standalone" ->
            useEffectOnPropChange(changeProps, refs[hook], props)
       [] hook = "reimplemented" ->
            useEffectOnPropChangeReimplemented(changeProps, refs[hook], props)
       [] hook = "array" ->
            useEffectOnPropChange(ArrayStyle(changeProps), refs[hook], props)]

\* the Watchers are mounted: their first render
MountWatcher ==
  /\ watcher = NotMounted
  /\ videoAnswer = NotMounted
  /\ \E changeProps \in ChangeProps, props \in WatcherProps :
       watcher' =
         [mounted |-> TRUE, changeProps |-> changeProps, renders |-> 1,
          props |-> props, before |-> Undefined,
          hook |-> RenderWatchers(changeProps,
                                  [hook \in WatcherHooks |-> useRef], props)]
  /\ UNCHANGED videoAnswer
  /\ UNCHANGED site

\* the parent renders again and passes the Watchers new props (or the same)
RenderWatcher ==
  /\ watcher # NotMounted
  /\ watcher.renders < MaxRenders
  /\ \E props \in WatcherProps :
       watcher' =
         [watcher EXCEPT
            !.renders = @ + 1,
            !.props = props,
            !.before = watcher.props,
            !.hook = RenderWatchers(
                       watcher.changeProps,
                       [hook \in WatcherHooks |-> watcher.hook[hook].ref],
                       props)]
  /\ UNCHANGED videoAnswer
  /\ UNCHANGED site

UnmountWatcher ==
  /\ watcher # NotMounted
  /\ watcher' = NotMounted
  /\ UNCHANGED videoAnswer
  /\ UNCHANGED site

----------------------------------------------------------------------------
(* content/blog/dynamic-portal: VideoAnswer, a video that a portal puts    *)
(* into a visually hidden container or into the body of a modal.           *)

MaxCloses == 2

\* a DOM node
Node(id) == [t |-> "node", id |-> id]

\* the nodes the two callback refs are given: the visually hidden div, and
\* the body of the modal while the modal is mounted
VisuallyHiddenVideoContainer == Node("visuallyHiddenVideoContainer")

ModalBody == Node("Modal.Body")

\* the props the steps of VideoAnswer's flow have put together when
\* addVideoUnmountingOnModalClose and the render function read them
VideoAnswerProps(state) ==
  Obj([showingModal |-> state.showingModal,
       lightboxPortalTargetNode |-> state.lightboxPortalTargetNode,
       visuallyHiddenVideoContainerNode |->
         state.visuallyHiddenVideoContainerNode,
       hasModalBeenClosed |-> state.hasModalBeenClosed])

\* A faulty callback: if (!showingModal) onModalClose(), whatever the
\* previous props were.
addVideoUnmountingWheneverNotShowing(ref, props) ==
  LET effect == useEffectOnPropChange(Arr(<<Str("showingModal")>>), ref, props)
  IN [ref |-> effect.ref,
      hasModalBeenClosed |->
        IF /\ effect.call.called
           /\ ~Truthy(Get(effect.call.props, Str("showingModal")))
        THEN Bool(TRUE)
        ELSE Get(props, Str("hasModalBeenClosed"))]

\* addVideoUnmountingOnModalClose in one render: the state variable
\* hasModalBeenClosed after the effect on showingModal has run, onModalClose
\* setting it to true, and the ref of the effect's usePrevious
addVideoUnmountingOnModalClose(ref, props) ==
  LET effect == useEffectOnPropChange(Arr(<<Str("showingModal")>>), ref, props)
  IN [ref |-> effect.ref,
      hasModalBeenClosed |->
        IF /\ effect.call.called
           /\ ~Truthy(Get(effect.call.props, Str("showingModal")))
           /\ Truthy(Get(effect.call.prevProps, Str("showingModal")))
        THEN Bool(TRUE)
        ELSE Get(props, Str("hasModalBeenClosed"))]

\* A faulty target: the portal's destination as first written, which does
\* not consider hasModalBeenClosed.
getVideoPortalTargetOfTwo(props) ==
  IF Truthy(Get(props, Str("showingModal")))
  THEN Get(props, Str("lightboxPortalTargetNode"))
  ELSE Get(props, Str("visuallyHiddenVideoContainerNode"))

getVideoPortalTarget(props) ==
  IF Truthy(Get(props, Str("showingModal")))
  THEN Get(props, Str("lightboxPortalTargetNode"))
  ELSE IF Truthy(Get(props, Str("hasModalBeenClosed")))
       THEN Null
       ELSE Get(props, Str("visuallyHiddenVideoContainerNode"))

\* <Portal to={to}><Video .../></Portal>: nothing when there is no target,
\* else the video in a portal to the target
Portal(to) ==
  IF ~Truthy(to)
  THEN Null
  ELSE [type |-> "portal", to |-> to,
        children |-> <<[type |-> "Video"]>>]

\* what the callback ref of the modal's body has made of its state variable
\* once a render is committed: the body while the modal shows, null once
\* the modal is unmounted
LightboxPortalTargetNode(state) ==
  IF Truthy(state.showingModal)
  THEN ModalBody
  ELSE IF state.lightboxPortalTargetNode = ModalBody
       THEN Null
       ELSE state.lightboxPortalTargetNode

\* One render of VideoAnswer, committed, with its effects run: the refs
\* have set their nodes, the effect on showingModal has run, and a state
\* variable that changed on the way calls for another render.
VideoAnswerRender(state) ==
  LET props == VideoAnswerProps(state)
      to == getVideoPortalTarget(props)
      closing == addVideoUnmountingOnModalClose(state.ref, props)
      wentFromTrueToFalse ==
        /\ state.output # Undefined
        /\ Truthy(state.output.showingModal)
        /\ ~Truthy(state.showingModal)
      after ==
        [state EXCEPT
           !.lightboxPortalTargetNode = LightboxPortalTargetNode(state),
           !.visuallyHiddenVideoContainerNode = VisuallyHiddenVideoContainer,
           !.hasModalBeenClosed = closing.hasModalBeenClosed,
           !.ref = closing.ref,
           !.output = [showingModal |-> state.showingModal,
                       hasModalBeenClosed |-> state.hasModalBeenClosed,
                       props |-> props, to |-> to, portal |-> Portal(to)],
           !.before = IF state.output = Undefined
                      THEN Undefined
                      ELSE state.output.showingModal,
           !.closes = IF wentFromTrueToFalse THEN @ + 1 ELSE @]
  IN [after EXCEPT
        !.stale = VideoAnswerProps(after) # VideoAnswerProps(state)]

\* VideoAnswer is mounted: its state variables take their initial values
\* and it renders for the first time
MountVideoAnswer ==
  /\ watcher = NotMounted
  /\ videoAnswer = NotMounted
  /\ videoAnswer' =
       VideoAnswerRender(
         [mounted |-> TRUE,
          showingModal |-> Bool(FALSE),
          lightboxPortalTargetNode |-> Undefined,
          visuallyHiddenVideoContainerNode |-> Undefined,
          hasModalBeenClosed |-> Bool(FALSE),
          ref |-> useRef,
          stale |-> FALSE,
          output |-> Undefined,
          before |-> Undefined,
          closes |-> 0])
  /\ UNCHANGED watcher
  /\ UNCHANGED site

\* VideoAnswer renders again: a state variable has changed, or its parent
\* has rendered
RenderVideoAnswer ==
  /\ videoAnswer # NotMounted
  /\ videoAnswer' = VideoAnswerRender(videoAnswer)
  /\ UNCHANGED watcher
  /\ UNCHANGED site

\* the user opens the modal: setShowingModal(true)
OpenModal ==
  /\ videoAnswer # NotMounted
  /\ ~videoAnswer.stale
  /\ videoAnswer.closes < MaxCloses
  /\ videoAnswer.showingModal = Bool(FALSE)
  /\ videoAnswer' = [videoAnswer EXCEPT !.showingModal = Bool(TRUE),
                                        !.stale = TRUE]
  /\ UNCHANGED watcher
  /\ UNCHANGED site

\* the user closes the modal: setShowingModal(false)
CloseModal ==
  /\ videoAnswer # NotMounted
  /\ ~videoAnswer.stale
  /\ videoAnswer.showingModal = Bool(TRUE)
  /\ videoAnswer' = [videoAnswer EXCEPT !.showingModal = Bool(FALSE),
                                        !.stale = TRUE]
  /\ UNCHANGED watcher
  /\ UNCHANGED site

UnmountVideoAnswer ==
  /\ videoAnswer # NotMounted
  /\ videoAnswer' = NotMounted
  /\ UNCHANGED watcher
  /\ UNCHANGED site

----------------------------------------------------------------------------
(* The specification.                                                      *)

Init ==
  /\ pathPrefix \in PathPrefixes
  /\ nodeEnv \in NodeEnvs
  /\ siteMetadata \in SiteMetadatas
  /\ now = StartMonth
  /\ Lawton \in {[title |-> "Lawton", baseLineHeight |-> h,
                  googleFonts |-> Str("the theme's fonts"),
                  overrideThemeStyles |-> Undefined] : h \in ThemeLineHeights}
  /\ typography = Unloaded
  /\ documentStyles = {}
  /\ rendered = NoRender
  /\ previous = NoRender
  /\ watcher = NotMounted
  /\ videoAnswer = NotMounted

Next ==
  \/ LoadTypography
  \/ Tick
  \/ RenderLayout
  \/ RenderBio
  \/ RenderPostLink
  \/ RenderBlogIndex
  \/ BuildIndexPage
  \/ Rerender
  \/ Unmount

Spec == Init /\ [][Next]_vars

----------------------------------------------------------------------------
(* Reading the mounted component's render.                                 *)

IndexRendered == rendered.component = "BlogIndex"

LayoutRendered == rendered.component \in {"Layout", "BlogIndex"}

\* the props Layout was given, directly or by BlogIndex
LayoutProps ==
  IF IndexRendered THEN rendered.markup.props ELSE rendered.props

\* what Layout returned
LayoutMarkup ==
  IF IndexRendered THEN rendered.markup.rendered ELSE rendered.markup

\* the element inside <header>
Header == LayoutMarkup.children[1].children[1]

\* the edges BlogIndex was given, and the entries of its post list
Edges == rendered.props.data.allMarkdownRemark.edges

Entries == LayoutMarkup.children[2].children[3]

\* parts of one entry: the link in its heading, the date in <small>, and
\* the html of its summary paragraph
EntryLink(entry) == entry.rendered.children[1].children[1]

EntryDate(entry) == entry.rendered.children[2].children[1]

EntrySummary(entry) ==
  entry.rendered.children[3].props.dangerouslySetInnerHTML.html

\* the calendar days of the model's posts, and the day a displayed date
\* "MMMM DD, YYYY" stands for
KnownDays ==
  {<<f.frontmatter.date[1], f.frontmatter.date[2], f.frontmatter.date[3]>> :
   f \in MarkdownFiles}

DayShown(date) == CHOOSE day \in KnownDays : FormatDate(day) = date.v

\* no entry shows an earlier day than an entry after it
SortedByDateDesc(entries) ==
  \A i, j \in DOMAIN entries :
    (i < j /\ Truthy(EntryDate(entries[i])) /\ Truthy(EntryDate(entries[j])))
      => ~Earlier(DayShown(EntryDate(entries[i])),
                  DayShown(EntryDate(entries[j])))

----------------------------------------------------------------------------
(* C1.                                                                     *)

\* C1 as stated: whatever list of edges BlogIndex is handed, the post list
\* has one PostLink entry per edge and the entries are sorted by date
\* descending.
C1_EveryListSortedByDate ==
  IndexRendered =>
    /\ Len(Entries) = Len(Edges)
    /\ \A i \in DOMAIN Entries : Entries[i].type = "PostLink"
    /\ SortedByDateDesc(Entries)

\* C1 amended: BlogIndex renders exactly one PostLink entry per edge, the
\* i-th entry from the i-th edge; the entries are sorted by date descending
\* whenever the edges are the page query's result.
C1_OneEntryPerEdgeSortedByQuery ==
  IndexRendered =>
    /\ Len(Entries) = Len(Edges)
    /\ \A i \in DOMAIN Entries :
         /\ Entries[i].type = "PostLink"
         /\ Entries[i].props.post = Edges[i].node
         /\ Entries[i].rendered = PostLink([post |-> Edges[i].node])
    /\ rendered.via = "pageQuery" => SortedByDateDesc(Entries)

\* the page query delivered two posts of different days and BlogIndex
\* listed them
C1_Witness ==
  /\ IndexRendered
  /\ rendered.via = "pageQuery"
  /\ Len(Entries) = 2
  /\ EntryDate(Entries[1]) # EntryDate(Entries[2])

----------------------------------------------------------------------------
(* C2.                                                                     *)

\* C2: rendered with location.pathname equal to rootPath, Layout's header is
\* the h1 heading, and its only content is the site title as a link to "/".
C2_HomeHeaderIsH1TitleLink ==
  (LayoutRendered /\ LayoutProps.location.pathname = pathPrefix \o "/") =>
    /\ Header.type = "h1"
    /\ Len(Header.children) = 1
    /\ Header.children[1].type = "Link"
    /\ Header.children[1].props.to = "/"
    /\ Header.children[1].children = <<LayoutProps.title>>
    /\ Len(LayoutMarkup.children[1].children) = 1

\* Layout rendered at the root of a site served under a path prefix
C2_Witness ==
  /\ rendered.component = "Layout"
  /\ pathPrefix = "/blog"
  /\ rendered.props.location.pathname = "/blog/"
  /\ Header.type = "h1"

----------------------------------------------------------------------------
(* C3.                                                                     *)

\* C3: for every pathname other than rootPath (a sub-page, or the path
\* prefix without its trailing slash) Layout's header is the smaller h3,
\* still with the title as a link to "/"; which of the two headers is
\* rendered is decided by the comparison of pathname with rootPath alone.
C3_OtherHeaderIsH3TitleLink ==
  LayoutRendered =>
    /\ Header.type \in {"h1", "h3"}
    /\ Header.type = "h3" <=>
         LayoutProps.location.pathname # pathPrefix \o "/"
    /\ LayoutProps.location.pathname # pathPrefix \o "/" =>
         /\ Len(Header.children) = 1
         /\ Header.children[1].type = "Link"
         /\ Header.children[1].props.to = "/"
         /\ Header.children[1].children = <<LayoutProps.title>>
         /\ Len(LayoutMarkup.children[1].children) = 1

\* Layout rendered at the path prefix written without its trailing slash
C3_Witness ==
  /\ rendered.component = "Layout"
  /\ pathPrefix = "/blog"
  /\ rendered.props.location.pathname = "/blog"
  /\ Header.type = "h3"

----------------------------------------------------------------------------
(* C4.                                                                     *)

\* what Layout returned in the render before the latest
PreviousLayoutMarkup ==
  IF previous.component = "BlogIndex"
  THEN previous.markup.rendered
  ELSE previous.markup

\* C4 as stated: any two renders of a component with equal props and equal
\* query data produce identical markup, whenever they happen.
C4_EqualPropsIdenticalMarkup ==
  previous # NoRender => previous.markup = rendered.markup

\* C4 amended: two renders of a component with equal props and equal query
\* data produce identical markup when they happen in the same calendar
\* year; PostLink and Bio produce identical markup whenever they render;
\* two renders of Layout (alone or under BlogIndex) in different years
\* differ in nothing but the year shown in the footer.
C4_IdenticalMarkupInTheSameYear ==
  previous # NoRender =>
    /\ previous.at \div 12 = rendered.at \div 12 =>
         previous.markup = rendered.markup
    /\ rendered.component \in {"PostLink", "Bio"} =>
         previous.markup = rendered.markup
    /\ LayoutRendered =>
         /\ PreviousLayoutMarkup.type = LayoutMarkup.type
         /\ PreviousLayoutMarkup.props = LayoutMarkup.props
         /\ PreviousLayoutMarkup.children[1] = LayoutMarkup.children[1]
         /\ PreviousLayoutMarkup.children[2] = LayoutMarkup.children[2]
         /\ \A i \in DOMAIN LayoutMarkup.children[3].children :
              i # 2 => PreviousLayoutMarkup.children[3].children[i]
                         = LayoutMarkup.children[3].children[i]

\* Layout rendered twice with the same props, at two times of one year
C4_Witness ==
  /\ previous # NoRender
  /\ rendered.component = "Layout"
  /\ previous.at # rendered.at
  /\ previous.at \div 12 = rendered.at \div 12

----------------------------------------------------------------------------
(* C5.                                                                     *)

\* C5 as stated: no step of the program, loading the typography module
\* included, changes the theme object, the document's styles or the site
\* metadata.
C5_NothingWritesSharedState == [][UNCHANGED shared]_vars

\* C5 amended: every render leaves the theme object, the document's styles
\* and the site metadata unchanged; loading the typography module leaves the
\* site metadata unchanged but writes the imported theme object (its
\* baseLineHeight and overrideThemeStyles, nothing else) and, unless NODE_ENV
\* is production, adds the generated styles to the document.
C5_OnlyModuleLoadWritesSharedState ==
  [][IF typography' = typography
     THEN UNCHANGED shared
     ELSE /\ siteMetadata' = siteMetadata
          /\ Lawton' # Lawton
          /\ Lawton' = [Lawton EXCEPT
                          !.baseLineHeight = 162,
                          !.overrideThemeStyles = OverrideThemeStyles]
          /\ nodeEnv = "production" => documentStyles' = documentStyles
          /\ nodeEnv # "production" =>
               /\ documentStyles \subseteq documentStyles'
               /\ documentStyles' # documentStyles]_vars

\* the module was loaded in development and a component has rendered
C5_Witness ==
  /\ typography # Unloaded
  /\ Lawton.overrideThemeStyles = OverrideThemeStyles
  /\ documentStyles # {}
  /\ rendered # NoRender
  /\ previous # NoRender

----------------------------------------------------------------------------
(* C6.                                                                     *)

\* every PostLink of the latest render, with the node it was given
RenderedPosts ==
  IF rendered.component = "PostLink"
  THEN {[node |-> rendered.props.post, markup |-> rendered.markup]}
  ELSE IF IndexRendered
       THEN {[node |-> Edges[i].node, markup |-> Entries[i].rendered] :
             i \in DOMAIN Entries}
       ELSE {}

\* a field the node lacks
Missing(value) == value \in {Null, Undefined}

\* C6 as stated: when a node lacks a front-matter field (title, date or
\* description), PostLink puts no other value in its place.
C6_NoSubstituteForMissingField ==
  \A r \in RenderedPosts :
    /\ Missing(r.node.frontmatter.title) =>
         r.markup.children[1].children[1].children
           = <<r.node.frontmatter.title>>
    /\ Missing(r.node.frontmatter.date) =>
         r.markup.children[2].children = <<r.node.frontmatter.date>>
    /\ Missing(r.node.frontmatter.description) =>
         r.markup.children[3].props.dangerouslySetInnerHTML.html
           = r.node.frontmatter.description

\* C6 amended: PostLink renders the same three elements whether or not a
\* front-matter field is missing and puts nothing in place of a missing
\* date, but it does substitute for the other two fields: the slug is the
\* link text when the title is missing, and the excerpt is the summary when
\* the description is missing.
C6_SlugAndExcerptSubstituted ==
  \A r \in RenderedPosts :
    /\ r.markup.type = "div"
    /\ [i \in DOMAIN r.markup.children |-> r.markup.children[i].type]
         = <<"h3", "small", "p">>
    /\ r.markup.children[2].children = <<r.node.frontmatter.date>>
    /\ Missing(r.node.frontmatter.title) =>
         r.markup.children[1].children[1].children = <<r.node.fields.slug>>
    /\ Missing(r.node.frontmatter.description) =>
         r.markup.children[3].props.dangerouslySetInnerHTML.html
           = r.node.excerpt

\* PostLink rendered a node that lacks its title and its description
C6_Witness ==
  \E r \in RenderedPosts :
    /\ Missing(r.node.frontmatter.title)
    /\ Missing(r.node.frontmatter.description)
    /\ r.node.fields.slug # r.node.frontmatter.title

----------------------------------------------------------------------------
(* C7.                                                                     *)

\* C7: every entry of the post list has its post's slug as its React key
\* and as its link's target, so that when the slugs of the edges are
\* pairwise distinct, so are the keys and so are the link targets.
C7_SlugIsKeyAndLinkTarget ==
  IndexRendered =>
    /\ \A i \in DOMAIN Entries :
         /\ Entries[i].key = Edges[i].node.fields.slug
         /\ EntryLink(Entries[i]).type = "Link"
         /\ EntryLink(Entries[i]).props.to = Edges[i].node.fields.slug
    /\ (\A i, j \in DOMAIN Edges :
          i # j => Edges[i].node.fields.slug # Edges[j].node.fields.slug)
         => \A i, j \in DOMAIN Entries :
              i # j => /\ Entries[i].key # Entries[j].key
                       /\ EntryLink(Entries[i]).props.to
                            # EntryLink(Entries[j]).props.to

\* BlogIndex listed two posts with different slugs
C7_Witness ==
  /\ IndexRendered
  /\ Len(Edges) = 2
  /\ Edges[1].node.fields.slug # Edges[2].node.fields.slug
  /\ Entries[1].key # Entries[2].key

----------------------------------------------------------------------------
(* C8.                                                                     *)

\* the field paths of a node
NodePaths(node) ==
  UNION {IF field \in {"fields", "frontmatter"}
         THEN {<<field, inner>> : inner \in DOMAIN node[field]}
         ELSE {<<field>>} :
         field \in DOMAIN node}

\* the node with the field at the path set (or added)
NodeWith(node, path, value) ==
  IF Len(path) = 1
  THEN [field \in DOMAIN node \cup {path[1]} |->
          IF field = path[1] THEN value ELSE node[field]]
  ELSE [node EXCEPT ![path[1]] =
          [field \in DOMAIN node[path[1]] \cup {path[2]} |->
             IF field = path[2] THEN value ELSE node[path[1]][field]]]

\* what the post list shows for a node: the entry's key and its markup
EntryOutput(node) ==
  LET entry == PostList(<<[node |-> node]>>)[1]
  IN <<entry.key, entry.rendered>>

\* the entry of some node changes when the field at the path does
EntryDependsOn(path) ==
  \E node \in EdgeNodes, value \in {Null, Str("another value")} :
    EntryOutput(NodeWith(node, path, value)) # EntryOutput(node)

\* other fields a markdown node has in the data layer
OtherNodePaths ==
  {<<"id">>, <<"html">>, <<"timeToRead">>, <<"frontmatter", "tags">>,
   <<"fields", "readingTime">>}

\* C8: each node the page query delivers has exactly the five fields
\* excerpt, fields.slug, frontmatter.date, frontmatter.title and
\* frontmatter.description, and the nodes come sorted by date descending;
\* what BlogIndex and PostLink render for a node depends on each of these
\* five fields and on no other field of the node.
C8_QueryFieldsAreTheFieldsRead ==
  (IndexRendered /\ rendered.via = "pageQuery" /\ Edges # <<>>) =>
    /\ \A i \in DOMAIN Edges :
         NodePaths(Edges[i].node)
           = {<<"excerpt">>, <<"fields", "slug">>, <<"frontmatter", "date">>,
              <<"frontmatter", "title">>, <<"frontmatter", "description">>}
    /\ SortedByDateDesc(Entries)
    /\ {path \in UNION {NodePaths(Edges[i].node) : i \in DOMAIN Edges}
                   \cup OtherNodePaths : EntryDependsOn(path)}
         = {<<"excerpt">>, <<"fields", "slug">>, <<"frontmatter", "date">>,
            <<"frontmatter", "title">>, <<"frontmatter", "description">>}

\* the page query delivered a post that has a value in all five fields
C8_Witness ==
  /\ IndexRendered
  /\ rendered.via = "pageQuery"
  /\ \E i \in DOMAIN Edges :
       /\ Truthy(Edges[i].node.frontmatter.description)
       /\ Truthy(Edges[i].node.frontmatter.title)
       /\ EntrySummary(Entries[i]) = Edges[i].node.frontmatter.description

----------------------------------------------------------------------------
(* C9.                                                                     *)

DaysInMonth(year, month) ==
  IF month = 2
  THEN IF year % 4 = 0 /\ (year % 100 # 0 \/ year % 400 = 0) THEN 29 ELSE 28
  ELSE IF month \in {4, 6, 9, 11} THEN 30 ELSE 31

\* the tuple is a date and time of the form YYYY-MM-DDThh:mm:ss.sssZ
IsISO8601(date) ==
  /\ Len(date) = 7
  /\ date[1] \in 0..9999
  /\ date[2] \in 1..12
  /\ date[3] \in 1..DaysInMonth(date[1], date[2])
  /\ date[4] \in 0..23
  /\ date[5] \in 0..59
  /\ date[6] \in 0..59
  /\ date[7] \in 0..999

\* the listing C9 gives, by slug
ShippedListing ==
  <<"/ad-hok-intro-at-a-glance/", "/dynamic-portal/",
    "/useeffectonpropchange/", "/slack-personal-activity-channel/",
    "/jiggle-webpack/", "/util-proptypes/">>

PlaceInShippedListing(slug) ==
  CHOOSE i \in DOMAIN ShippedListing : ShippedListing[i] = slug.v

\* C9: each of the six posts under content/blog declares a string title and
\* an ISO 8601 date, and no two declare the same date, so the page query's
\* date-descending listing of the posts (of all six, or of any of them) is
\* the one C9 gives and no other.
C9_ShippedPostsStrictlyOrdered ==
  /\ Cardinality(ContentBlog) = 6
  /\ \A file \in ContentBlog :
       /\ {"title", "date"} \subseteq DOMAIN file.frontmatter
       /\ file.frontmatter.title.t = "string"
       /\ IsISO8601(file.frontmatter.date)
  /\ \A f, g \in ContentBlog :
       f # g => \/ Earlier(f.frontmatter.date, g.frontmatter.date)
                \/ Earlier(g.frontmatter.date, f.frontmatter.date)
  /\ {QueryNode(file).fields.slug.v : file \in ContentBlog}
       = {ShippedListing[i] : i \in DOMAIN ShippedListing}
  /\ (/\ IndexRendered
      /\ rendered.via = "pageQuery"
      /\ \A i \in DOMAIN Edges :
           Edges[i].node \in {QueryNode(file) : file \in ContentBlog})
       => \A i, j \in DOMAIN Entries :
            i < j => PlaceInShippedListing(Entries[i].key)
                       < PlaceInShippedListing(Entries[j].key)

\* the index page was built from the six posts of the repository
C9_Witness ==
  /\ IndexRendered
  /\ rendered.via = "pageQuery"
  /\ Len(Entries) = 6
  /\ [i \in DOMAIN Entries |-> Entries[i].key.v] = ShippedListing

----------------------------------------------------------------------------
(* C10.                                                                    *)

\* C10: on every route Layout returns the same frame, a header, then a
\* main, then a footer; main holds exactly the children Layout was given,
\* which appear nowhere else; and rendering the same props on any other
\* route changes nothing but the header.
C10_SameFrameOnEveryRoute ==
  LayoutRendered =>
    /\ LayoutMarkup.type = "div"
    /\ [i \in DOMAIN LayoutMarkup.children |-> LayoutMarkup.children[i].type]
         = <<"header", "main", "footer">>
    /\ LayoutMarkup.children[2].children = LayoutProps.children
    /\ Len(LayoutMarkup.children[1].children) = 1
    /\ Header.children[1].children = <<LayoutProps.title>>
    /\ LayoutMarkup.children[3].children
         = <<Str("(c) "), Num(rendered.at \div 12), Str(", Built with"),
             Str(" "),
             El("a", [href |-> "https://www.gatsbyjs.org"],
                <<Str("Gatsby")>>)>>
    /\ rendered.at = now =>
         \A pathname \in Pathnames :
           LET other ==
                 Layout([LayoutProps EXCEPT !.location.pathname = pathname])
           IN /\ other.type = LayoutMarkup.type
              /\ other.props = LayoutMarkup.props
              /\ Len(other.children) = 3
              /\ other.children[2] = LayoutMarkup.children[2]
              /\ other.children[3] = LayoutMarkup.children[3]

\* Layout rendered a sub-page with content
C10_Witness ==
  /\ rendered.component = "Layout"
  /\ rendered.props.location.pathname = "/blog/dynamic-portal/"
  /\ rendered.props.children # <<>>
  /\ rendered.at = now
  /\ LayoutMarkup.children[2].children = rendered.props.children

----------------------------------------------------------------------------
(* C11.                                                                    *)

\* Twitter handles a site's metadata might name
TwitterHandles == {Str("first"), Str("second"), Str("helixbass"), Str("")}

\* C11: what Bio renders is determined by the author of the site metadata
\* alone: the blurb names the author the bio query delivered, and the same
\* query data with any other social.twitter gives identical markup.
C11_BioDeterminedByAuthorAlone ==
  rendered.component = "Bio" =>
    /\ rendered.props = bioQuery
    /\ rendered.markup.rendered = BioRender(rendered.props)
    /\ rendered.markup.rendered.children[1].children
         = <<Str("Written by "),
             El("strong", NoProps, <<siteMetadata.author>>),
             Str(" who lives and works in NYC.")>>
    /\ \A twitter \in TwitterHandles :
         BioRender([rendered.props EXCEPT
                      !.site.siteMetadata.social.twitter = twitter])
           = rendered.markup.rendered

\* Bio rendered from query data that carries a Twitter handle
C11_Witness ==
  /\ rendered.component = "Bio"
  /\ Truthy(rendered.props.site.siteMetadata.social.twitter)
  /\ \E twitter \in TwitterHandles :
       twitter # rendered.props.site.siteMetadata.social.twitter

----------------------------------------------------------------------------
(* C12.                                                                    *)

\* the edges, as handed to BlogIndex, are in date-descending order
EdgesInDateOrder ==
  \A i, j \in DOMAIN Edges :
    (/\ i < j
     /\ Truthy(Edges[i].node.frontmatter.date)
     /\ Truthy(Edges[j].node.frontmatter.date))
      => ~Earlier(DayShown(Edges[i].node.frontmatter.date),
                  DayShown(Edges[j].node.frontmatter.date))

\* C12: BlogIndex never reorders, filters or de-duplicates: the post list
\* has as many entries as there are edges, two edges with one slug included,
\* the i-th entry is the PostLink of the i-th edge's node keyed by its slug,
\* and the dates appear in the order of the edges, so the list is
\* date-descending exactly when the edges were delivered in that order.
C12_IthEntryFromIthEdge ==
  IndexRendered =>
    /\ DOMAIN Entries = DOMAIN Edges
    /\ \A i \in DOMAIN Edges :
         Entries[i]
           = PostLinkElement(Edges[i].node, Edges[i].node.fields.slug)
    /\ [i \in DOMAIN Entries |-> EntryDate(Entries[i])]
         = [i \in DOMAIN Edges |-> Edges[i].node.frontmatter.date]
    /\ SortedByDateDesc(Entries) <=> EdgesInDateOrder

\* BlogIndex was handed two different nodes with one slug and listed both
C12_Witness ==
  /\ IndexRendered
  /\ Len(Edges) = 2
  /\ Edges[1].node # Edges[2].node
  /\ Edges[1].node.fields.slug = Edges[2].node.fields.slug
  /\ Len(Entries) = 2
  /\ Entries[1].rendered # Entries[2].rendered

----------------------------------------------------------------------------
(* C13.                                                                    *)

\* the link PostLink renders for a node
PostLinkLink(node) == PostLink([post |-> node]).children[1].children[1]

\* the titles that are not truthy: missing, null and the empty string
FalsyTitles == {Undefined, Null, Str("")}

\* C13: the link text of a post entry is the front-matter title when the
\* title is truthy and the slug otherwise, whether the title is missing,
\* null or the empty string; the link's target is the slug in both cases.
C13_LinkTextIsTitleOrSlug ==
  \A r \in RenderedPosts :
    LET link == r.markup.children[1].children[1]
        title == r.node.frontmatter.title
        slug == r.node.fields.slug
    IN /\ link.type = "Link"
       /\ link.props.to = slug
       /\ Truthy(title) => link.children = <<title>>
       /\ ~Truthy(title) => link.children = <<slug>>
       /\ \A falsy \in FalsyTitles :
            LET other == PostLinkLink([r.node EXCEPT
                                         !.frontmatter.title = falsy])
            IN /\ other.children = <<slug>>
               /\ other.props.to = slug
       /\ LET titled == PostLinkLink([r.node EXCEPT
                                        !.frontmatter.title = Str("A title")])
          IN /\ titled.children = <<Str("A title")>>
             /\ titled.props.to = slug

\* PostLink rendered a node whose title is the empty string, with the slug
\* as the link text
C13_Witness ==
  \E r \in RenderedPosts :
    /\ r.node.frontmatter.title = Str("")
    /\ Truthy(r.node.fields.slug)
    /\ r.markup.children[1].children[1].children = <<r.node.fields.slug>>

----------------------------------------------------------------------------
(* C14.                                                                    *)

\* the latest render is the index page built from posts of content/blog only
ShippedIndexRendered ==
  /\ IndexRendered
  /\ rendered.via = "pageQuery"
  /\ \A i \in DOMAIN Edges :
       Edges[i].node \in {QueryNode(file) : file \in ContentBlog}

\* C14: the summary paragraph of a post entry shows the front-matter
\* description when it is truthy and the generated excerpt otherwise; none
\* of the six posts under content/blog declares a description, so every
\* entry of the blog as shipped shows its excerpt.
C14_SummaryIsDescriptionOrExcerpt ==
  /\ \A r \in RenderedPosts :
       LET summary == r.markup.children[3]
           description == r.node.frontmatter.description
       IN /\ summary.type = "p"
          /\ summary.children = <<>>
          /\ Truthy(description) =>
               summary.props.dangerouslySetInnerHTML.html = description
          /\ ~Truthy(description) =>
               summary.props.dangerouslySetInnerHTML.html = r.node.excerpt
  /\ \A file \in ContentBlog : "description" \notin DOMAIN file.frontmatter
  /\ ShippedIndexRendered =>
       \A i \in DOMAIN Entries :
         /\ Edges[i].node.frontmatter.description = Null
         /\ EntrySummary(Entries[i]) = Edges[i].node.excerpt

\* the index page was built from the six posts and every entry shows its
\* post's excerpt
C14_Witness ==
  /\ ShippedIndexRendered
  /\ Len(Edges) = Cardinality(ContentBlog)
  /\ \A i \in DOMAIN Entries :
       /\ Truthy(EntrySummary(Entries[i]))
       /\ EntrySummary(Entries[i]) = Edges[i].node.excerpt

----------------------------------------------------------------------------
(* C15.                                                                    *)

\* C15: once the typography module is loaded, the generated styles are in
\* the document if and only if NODE_ENV is not production, and in a
\* production build nothing is ever injected; in every environment the
\* Typography instance was built from the theme with the base line height
\* 1.62 and the style overrides already applied.
C15_StylesInjectedUnlessProduction ==
  /\ typography = Unloaded => documentStyles = {}
  /\ nodeEnv = "production" => documentStyles = {}
  /\ typography # Unloaded =>
       /\ documentStyles # {} <=> nodeEnv # "production"
       /\ nodeEnv # "production" =>
            documentStyles = InjectStyles(typography, {})
       /\ typography.options.baseLineHeight = 162
       /\ typography.options.overrideThemeStyles = OverrideThemeStyles
       /\ typography.options = Lawton
       /\ \A style \in documentStyles :
            /\ style.css.baseLineHeight = 162
            /\ style.css.overrideThemeStyles = OverrideThemeStyles

\* the module was loaded in a production build and a page has rendered
C15_Witness ==
  /\ nodeEnv = "production"
  /\ typography # Unloaded
  /\ typography.options.overrideThemeStyles = OverrideThemeStyles
  /\ documentStyles = {}
  /\ IndexRendered

----------------------------------------------------------------------------
(* The specification of the components with hooks, in one build of the     *)
(* blog.                                                                   *)

HookInit ==
  /\ pathPrefix = ""
  /\ nodeEnv = "production"
  /\ siteMetadata = SiteMetadata("skribblin", "An Author", "first")
  /\ now = StartMonth
  /\ Lawton = [title |-> "Lawton", baseLineHeight |-> 150,
               googleFonts |-> Str("the theme's fonts"),
               overrideThemeStyles |-> Undefined]
  /\ typography = Unloaded
  /\ documentStyles = {}
  /\ rendered = NoRender
  /\ previous = NoRender
  /\ watcher = NotMounted
  /\ videoAnswer = NotMounted

HookNext ==
  \/ MountWatcher
  \/ RenderWatcher
  \/ UnmountWatcher
  \/ MountVideoAnswer
  \/ RenderVideoAnswer
  \/ OpenModal
  \/ CloseModal
  \/ UnmountVideoAnswer

HookSpec == HookInit /\ [][HookNext]_vars

----------------------------------------------------------------------------
(* C16.                                                                    *)

\* the prop names a first argument of the hook makes it watch
WatchedNames(changeProps) ==
  IF changeProps.t = "array"
  THEN {changeProps.items[i].v : i \in DOMAIN changeProps.items}
  ELSE {changeProps.v}

\* the value of a prop in a props object, undefined when it is not passed
PropValue(props, name) ==
  IF name \in DOMAIN props.fields THEN props.fields[name] ELSE Undefined

\* a watched prop differs between the latest render and the one before it
WatchedPropDiffers ==
  /\ watcher.renders > 1
  /\ \E name \in WatchedNames(watcher.changeProps) :
       PropValue(watcher.props, name) # PropValue(watcher.before, name)

\* C16 as stated: after every render, the first included, the callback has
\* been invoked if and only if a watched prop differs from its value in the
\* render immediately before, and it was passed the props of the two
\* renders.
C16_InvokedExactlyOnChange ==
  watcher # NotMounted =>
    LET call == watcher.hook["standalone"].call
    IN /\ call.called <=> WatchedPropDiffers
       /\ call.called =>
            /\ call.props = watcher.props
            /\ call.prevProps = watcher.before

\* C16 amended: after every render but the first, the callback has been
\* invoked if and only if a watched prop differs (!==) from its value in the
\* render immediately before, and it was passed the current props and the
\* props of that render.  After the first render, which no render precedes,
\* the previous props are the empty object: the callback has been invoked
\* if and only if a watched prop is not undefined, and it was passed the
\* current props and {}.
C16_InvokedOnChangeAndOnMount ==
  watcher # NotMounted =>
    LET call == watcher.hook["standalone"].call
    IN /\ watcher.renders > 1 =>
            /\ call.called <=> WatchedPropDiffers
            /\ call.called =>
                 /\ call.props = watcher.props
                 /\ call.prevProps = watcher.before
       /\ watcher.renders = 1 =>
            /\ call.called <=>
                 \E name \in WatchedNames(watcher.changeProps) :
                   PropValue(watcher.props, name) # Undefined
            /\ call.called =>
                 /\ call.props = watcher.props
                 /\ call.prevProps = EmptyObject

\* after a render later than the first, the callback was invoked with the
\* props of that render and of the one before, which differ in foo
C16_Witness ==
  /\ watcher # NotMounted
  /\ watcher.renders > 1
  /\ watcher.hook["standalone"].call.called
  /\ watcher.hook["standalone"].call.prevProps = watcher.before
  /\ PropValue(watcher.props, "foo") = Str("bar")
  /\ PropValue(watcher.before, "foo") = Str("baz")

----------------------------------------------------------------------------
(* C17.                                                                    *)

\* C17: the hook reimplemented as useEffectOnPropChangeWhen() with the
\* default condition does what the hook as first given does: rendered side
\* by side with the same watched props and the same sequence of props, the
\* two have invoked the callback after the same renders with the same
\* arguments, and hold the same previous props; passing the default
\* condition explicitly changes nothing.
C17_ReimplementedAgreesWithStandalone ==
  watcher # NotMounted =>
    /\ watcher.hook["reimplemented"].call = watcher.hook["standalone"].call
    /\ watcher.hook["reimplemented"].ref = watcher.hook["standalone"].ref
    /\ \A props \in WatcherProps :
         /\ useEffectOnPropChangeReimplemented(
              watcher.changeProps, watcher.hook["reimplemented"].ref, props)
              = useEffectOnPropChange(
                  watcher.changeProps, watcher.hook["standalone"].ref, props)
         /\ useEffectOnPropChangeWhen(
              DefaultCondition, watcher.changeProps,
              watcher.hook["reimplemented"].ref, props)
              = useEffectOnPropChange(
                  watcher.changeProps, watcher.hook["standalone"].ref, props)

\* the reimplemented hook watched foo and bar, and invoked the callback
\* after a render in which bar changed and foo did not
C17_Witness ==
  /\ watcher # NotMounted
  /\ watcher.renders > 1
  /\ watcher.changeProps = Arr(<<Str("foo"), Str("bar")>>)
  /\ PropValue(watcher.props, "foo") = PropValue(watcher.before, "foo")
  /\ PropValue(watcher.props, "bar") # PropValue(watcher.before, "bar")
  /\ watcher.hook["reimplemented"].call.called
  /\ watcher.hook["reimplemented"].call.prevProps = watcher.before

----------------------------------------------------------------------------
(* C18.                                                                    *)

\* C18: both calling styles work and agree: the hook passed a prop name has
\* invoked the callback after the same renders, with the same arguments, as
\* the hook passed the array of that one name; ensureArray makes the
\* one-item array of a name and returns an array as it is, so it is
\* idempotent.
C18_NameAndArrayStylesAgree ==
  /\ \A changeProps \in ChangeProps :
       /\ isArray(changeProps) => ensureArray(changeProps) = changeProps
       /\ ~isArray(changeProps) =>
            ensureArray(changeProps) = Arr(<<changeProps>>)
       /\ ensureArray(ensureArray(changeProps)) = ensureArray(changeProps)
  /\ watcher # NotMounted =>
       /\ watcher.hook["array"].call = watcher.hook["standalone"].call
       /\ watcher.hook["array"].ref = watcher.hook["standalone"].ref

\* the hook was passed the name foo, its neighbour the array of foo, and
\* both invoked the callback after a render in which foo changed
C18_Witness ==
  /\ watcher # NotMounted
  /\ watcher.renders > 1
  /\ watcher.changeProps = Str("foo")
  /\ ArrayStyle(watcher.changeProps) = Arr(<<Str("foo")>>)
  /\ PropValue(watcher.props, "foo") # PropValue(watcher.before, "foo")
  /\ watcher.hook["standalone"].call.called
  /\ watcher.hook["array"].call.called

----------------------------------------------------------------------------
(* C19.                                                                    *)

\* C19: hasModalBeenClosed is false when VideoAnswer has mounted; it
\* becomes true only in a step that is a render in which showingModal went
\* from true (in the render before) to false; and once true it stays true
\* for as long as the component is mounted, however often the modal is
\* opened and closed again.
C19_ClosedOnlyOnCloseAndForGood ==
  [][/\ (videoAnswer = NotMounted /\ videoAnswer' # NotMounted) =>
          videoAnswer'.hasModalBeenClosed = Bool(FALSE)
     /\ (videoAnswer # NotMounted /\ videoAnswer' # NotMounted) =>
          /\ videoAnswer.hasModalBeenClosed = Bool(TRUE) =>
               videoAnswer'.hasModalBeenClosed = Bool(TRUE)
          /\ (/\ videoAnswer.hasModalBeenClosed = Bool(FALSE)
              /\ videoAnswer'.hasModalBeenClosed = Bool(TRUE)) =>
               /\ videoAnswer.output.showingModal = Bool(TRUE)
               /\ videoAnswer'.output.showingModal = Bool(FALSE)
               /\ videoAnswer'.before = Bool(TRUE)
               /\ videoAnswer'.closes = videoAnswer.closes + 1]_vars

\* the modal was closed, opened again and closed again, and
\* hasModalBeenClosed is still true
C19_Witness ==
  /\ videoAnswer # NotMounted
  /\ videoAnswer.closes = 2
  /\ videoAnswer.showingModal = Bool(FALSE)
  /\ videoAnswer.hasModalBeenClosed = Bool(TRUE)

----------------------------------------------------------------------------
(* C20.                                                                    *)

\* the latest render of VideoAnswer mounted the video
VideoMounted == videoAnswer.output.portal # Null

\* the latest render of VideoAnswer is one in which the modal is closed,
\* after a render in which it was closed by the user
ClosedAfterAClose ==
  /\ videoAnswer # NotMounted
  /\ videoAnswer.closes > 0
  /\ videoAnswer.output.showingModal = Bool(FALSE)

\* C20 as stated: the portal's target is the lightbox node in every render
\* in which showingModal is true, the visually hidden container only while
\* the modal has never been closed, and null in every render in which the
\* modal is not showing and has been closed; so in no render after a close
\* in which the modal is closed is the video mounted.
C20_NeverMountedWhileClosedAfterAClose ==
  videoAnswer # NotMounted =>
    LET output == videoAnswer.output
    IN /\ output.showingModal = Bool(TRUE) =>
            output.to = output.props.fields.lightboxPortalTargetNode
       /\ output.to = VisuallyHiddenVideoContainer => videoAnswer.closes = 0
       /\ ClosedAfterAClose => output.to = Null
       /\ ClosedAfterAClose => ~VideoMounted

\* C20 amended: the portal's target is the lightbox node in every render in
\* which showingModal is true, the visually hidden container in every
\* other render in which hasModalBeenClosed is false, and null in every
\* other render in which it is true, and the video is mounted exactly when
\* the target is a node.  hasModalBeenClosed is set by the effect of the
\* render in which the modal is first closed, so that one render still
\* mounts the video in the hidden container and is followed by another; in
\* every later render in which the modal is closed the video is not
\* mounted.
C20_UnmountedOnceTheCloseIsRecorded ==
  videoAnswer # NotMounted =>
    LET output == videoAnswer.output
    IN /\ output.showingModal = Bool(TRUE) =>
            output.to = output.props.fields.lightboxPortalTargetNode
       /\ (output.showingModal = Bool(FALSE)
             /\ output.hasModalBeenClosed = Bool(FALSE)) =>
            output.to = output.props.fields.visuallyHiddenVideoContainerNode
       /\ (output.showingModal = Bool(FALSE)
             /\ output.hasModalBeenClosed = Bool(TRUE)) =>
            output.to = Null
       /\ VideoMounted <=> output.to \in {VisuallyHiddenVideoContainer,
                                           ModalBody}
       /\ VideoMounted => output.portal.to = output.to
       /\ (ClosedAfterAClose /\ VideoMounted) =>
            /\ videoAnswer.closes = 1
            /\ videoAnswer.before = Bool(TRUE)
            /\ output.hasModalBeenClosed = Bool(FALSE)
            /\ output.to = VisuallyHiddenVideoContainer
            /\ videoAnswer.hasModalBeenClosed = Bool(TRUE)
            /\ videoAnswer.stale
       /\ (ClosedAfterAClose /\ output.hasModalBeenClosed = Bool(TRUE)) =>
            ~VideoMounted

\* the modal was closed, the close was recorded, and VideoAnswer has
\* rendered again without the video
C20_Witness ==
  /\ ClosedAfterAClose
  /\ videoAnswer.output.hasModalBeenClosed = Bool(TRUE)
  /\ videoAnswer.output.to = Null
  /\ ~VideoMounted
  /\ ~videoAnswer.stale

====
